---- MODULE Spec2Model ----
(***************************************************************************)
(* Model of the Neustrelitz Peak Density Model (NPDM) calculators of       *)
(* src/electron_density_model/neustrelitz_peak_density_model.py, and of    *)
(* the utilities of src/propagation.                                       *)
(*                                                                         *)
(* Python floats are modelled as fixed-point integers with three decimal   *)
(* places (the float v is the integer v * SCALE, truncated towards zero).  *)
(* math.cos, math.sin and math.exp are computed by range reduction and a   *)
(* truncated power series in that arithmetic.  An exception raised by a    *)
(* method is an outcome record whose kind is the exception's name.         *)
(***************************************************************************)
EXTENDS Integers, Sequences, FiniteSets, TLC

VARIABLES coefficients, obs, inst, result, calls

vars == <<coefficients, obs, inst, result, calls>>

(***************************************************************************)
(* Fixed-point arithmetic                                                  *)
(***************************************************************************)
SCALE == 1000

Fx(n) == n * SCALE

Abs(x) == IF x < 0 THEN -x ELSE x

Sgn(x) == IF x < 0 THEN -1 ELSE 1

\* float * float, truncated towards zero
MulFx(a, b) ==
  LET x == Abs(a)
      y == Abs(b)
  IN  (Sgn(a) * Sgn(b)) * ((x \div SCALE) * y + ((x % SCALE) * y) \div SCALE)

\* float / float for a non-zero divisor, truncated towards zero
DivFx(a, b) ==
  LET x == Abs(a)
      y == Abs(b)
  IN  (Sgn(a) * Sgn(b)) * ((x \div y) * SCALE + ((x % y) * SCALE) \div y)

\* math.pi
PI == 3142

TwoPi == 2 * PI

HalfPi == PI \div 2

\* the power series of cos on [0, pi/2]
CosSeries(y) ==
  LET y2 == MulFx(y, y)
      t1 == y2 \div 2
      t2 == MulFx(t1, y2) \div 12
      t3 == MulFx(t2, y2) \div 30
      t4 == MulFx(t3, y2) \div 56
  IN  SCALE - t1 + t2 - t3 + t4

\* math.cos
Cos(x) ==
  LET y == Abs(x) % TwoPi
      z == IF y > PI THEN TwoPi - y ELSE y
  IN  IF z > HalfPi THEN -CosSeries(PI - z) ELSE CosSeries(z)

\* math.sin
Sin(x) == Cos(x - HalfPi)

\* e
EULER == 2718

\* exp of a fraction f in [0, 1)
ExpSeries(f) ==
  LET t2 == MulFx(f, f) \div 2
      t3 == MulFx(t2, f) \div 3
      t4 == MulFx(t3, f) \div 4
      t5 == MulFx(t4, f) \div 5
  IN  SCALE + f + t2 + t3 + t4 + t5

RECURSIVE EPow(_)
\* e to a whole power n >= 0
EPow(n) == IF n = 0 THEN SCALE ELSE MulFx(EULER, EPow(n - 1))

\* exp of x >= 0
ExpPos(x) == MulFx(EPow(x \div SCALE), ExpSeries(x % SCALE))

\* math.exp; below exp(-8) the value is under the model's resolution
Exp(x) ==
  IF x >= 0 THEN ExpPos(x)
  ELSE IF x < -Fx(8) THEN 0
  ELSE DivFx(SCALE, ExpPos(-x))

(***************************************************************************)
(* Outcomes of a method call and Python list indexing                      *)
(***************************************************************************)
Value(v) == [kind |-> "value", val |-> v]

Raise(e) == [kind |-> e, val |-> 0]

NoResult == [kind |-> "none", val |-> 0]

\* coefficients[i] of a Python list: defined for 0 <= i < len
At(c, i) == c[i + 1]

\* coefficients[i] raises IndexError
IndexRaises(c, i) == i >= Len(c)

\* x / d raises ZeroDivisionError
DivRaises(d) == d = 0

(***************************************************************************)
(* LocalTimeF1                                                             *)
(***************************************************************************)
\* mutant: the semi-diurnal phase given the diurnal period
calculate_local_time_variations_SamePeriod(self) ==
  LET phase_shift == Fx(14)
      two_pi == MulFx(Fx(2), PI)
  IN  [variation_diurnal |->
         DivFx(MulFx(two_pi, self.local_time_hours - phase_shift), Fx(24)),
       variation_semi_diurnal |->
         DivFx(MulFx(two_pi, self.local_time_hours), Fx(24)),
       variation_ter_diurnal |->
         DivFx(MulFx(two_pi, self.local_time_hours), Fx(8))]

calculate_local_time_variations(self) ==
  LET phase_shift == Fx(14)
      two_pi == MulFx(Fx(2), PI)
  IN  [variation_diurnal |->
         DivFx(MulFx(two_pi, self.local_time_hours - phase_shift), Fx(24)),
       variation_semi_diurnal |->
         DivFx(MulFx(two_pi, self.local_time_hours), Fx(12)),
       variation_ter_diurnal |->
         DivFx(MulFx(two_pi, self.local_time_hours), Fx(8))]

calculate_solar_zenith_angles(self) ==
  LET solar_zenith_angle_correction == 400
      cos_solar_zenith_angle ==
        MulFx(Sin(self.latitude_radians), Sin(self.sun_declination_radians))
        + MulFx(Cos(self.latitude_radians), Cos(self.sun_declination_radians))
  IN  [cos_adjusted_zenith_angle |->
         Cos(cos_solar_zenith_angle)
         - MulFx(DivFx(MulFx(Fx(2), self.latitude_radians), PI),
                 Sin(self.sun_declination_radians)),
       cos_further_adjusted_zenith_angle |->
         Cos(cos_solar_zenith_angle) + solar_zenith_angle_correction]

\* cos((2 * pi * (day_of_year - 181)) / 365.25), used by both bite-out steps
SeasonalCosine(self) ==
  Cos(DivFx(MulFx(MulFx(Fx(2), PI), self.day_of_year - Fx(181)), 365250))

calculate_local_time_at_beginning_of_bite_out(self) ==
  IF DivRaises(Abs(self.latitude_radians))
  THEN Raise("ZeroDivisionError")
  ELSE Value(Fx(13)
             + MulFx(MulFx(1500, SeasonalCosine(self)),
                     DivFx(self.latitude_radians, Abs(self.latitude_radians))))

calculate_summer_daytime_bite_out(self) ==
  LET ltbo == calculate_local_time_at_beginning_of_bite_out(self)
      fixed_geographic_latitude == Fx(45)
      gaussian_half_width_degree == Fx(14)
      gaussian_half_width_hours == Fx(3)
      latitude_term ==
        Exp(-DivFx(Abs(self.latitude_radians)
                     - MulFx(fixed_geographic_latitude, fixed_geographic_latitude),
                   MulFx(Fx(2), MulFx(gaussian_half_width_degree,
                                      gaussian_half_width_degree))))
      d == self.latitude_radians - ltbo.val
      time_term ==
        Exp(-MulFx(DivFx(MulFx(d, d), Fx(2)),
                   MulFx(gaussian_half_width_hours, gaussian_half_width_hours)))
  IN  IF ltbo.kind # "value" THEN ltbo
      ELSE Value(MulFx(MulFx(MulFx(latitude_term, SeasonalCosine(self)), time_term),
                       DivFx(self.latitude_radians, Abs(self.latitude_radians))))

calculate_local_time_F1(self, c) ==
  LET v == calculate_local_time_variations(self)
      z == calculate_solar_zenith_angles(self)
      bo == calculate_summer_daytime_bite_out(self)
  IN  IF bo.kind # "value" THEN bo
      ELSE IF IndexRaises(c, 5) THEN Raise("IndexError")
      ELSE Value(Cos(z.cos_further_adjusted_zenith_angle)
                 + MulFx(MulFx(At(c, 0), Cos(v.variation_diurnal))
                         + MulFx(At(c, 1), Cos(v.variation_semi_diurnal))
                         + MulFx(At(c, 2), Sin(v.variation_semi_diurnal))
                         + MulFx(At(c, 3), Cos(v.variation_ter_diurnal))
                         + MulFx(At(c, 4), Sin(v.variation_ter_diurnal)),
                         Cos(z.cos_adjusted_zenith_angle))
                 + MulFx(At(c, 5), bo.val))

(***************************************************************************)
(* SeasonalVariationF2                                                     *)
(***************************************************************************)
\* mutant: a year of 365 days
calculate_annual_variation_365(self) ==
  LET phase_shift == Fx(18)
  IN  DivFx(MulFx(MulFx(Fx(2), PI), self.day_of_year - phase_shift), Fx(365))

calculate_annual_variation(self) ==
  LET phase_shift == Fx(18)
  IN  DivFx(MulFx(MulFx(Fx(2), PI), self.day_of_year - phase_shift), 365250)

calculate_semi_annual_variation(self) ==
  LET phase_shift == Fx(6)
  IN  DivFx(MulFx(MulFx(Fx(4), PI), self.day_of_year - phase_shift), 365250)

\* mutant: every coefficient index shifted down by one
calculate_seasonal_variation_F2_IndexShift(self, c) ==
  LET annual_variation == calculate_annual_variation(self)
      semi_annual_variation == calculate_semi_annual_variation(self)
  IN  IF IndexRaises(c, 5) \/ IndexRaises(c, 6) THEN Raise("IndexError")
      ELSE Value(SCALE + MulFx(At(c, 5), Cos(annual_variation))
                 + MulFx(At(c, 6), Cos(semi_annual_variation)))

calculate_seasonal_variation_F2(self, c) ==
  LET annual_variation == calculate_annual_variation(self)
      semi_annual_variation == calculate_semi_annual_variation(self)
  IN  IF IndexRaises(c, 6) \/ IndexRaises(c, 7) THEN Raise("IndexError")
      ELSE Value(SCALE + MulFx(At(c, 6), Cos(annual_variation))
                 + MulFx(At(c, 7), Cos(semi_annual_variation)))

(***************************************************************************)
(* GeomagneticFieldDependencyF3                                            *)
(***************************************************************************)
\* mutant: the sine taken in place of the cosine
calculate_geomagentic_field_dependency_Sine(self, c) ==
  IF IndexRaises(c, 8) THEN Raise("IndexError")
  ELSE Value(SCALE + MulFx(At(c, 8), Sin(self.geommagnetic_latitude)))

calculate_geomagentic_field_dependency(self, c) ==
  IF IndexRaises(c, 8) THEN Raise("IndexError")
  ELSE Value(SCALE + MulFx(At(c, 8), Cos(self.geommagnetic_latitude)))

(***************************************************************************)
(* IonizationCrestsF4                                                      *)
(***************************************************************************)
\* mutant: the width's upper constant mistyped as 15
calculate_half_width_From15(self) ==
  LET coefficient_half_width_time == Fx(12)
      d == self.local_time_hours - Fx(14)
  IN  Fx(15) - MulFx(Fx(10),
                     Exp(-DivFx(MulFx(d, d),
                                MulFx(Fx(2), MulFx(coefficient_half_width_time,
                                                   coefficient_half_width_time)))))

calculate_half_width(self) ==
  LET coefficient_half_width_time == Fx(12)
      d == self.local_time_hours - Fx(14)
  IN  Fx(20) - MulFx(Fx(10),
                     Exp(-DivFx(MulFx(d, d),
                                MulFx(Fx(2), MulFx(coefficient_half_width_time,
                                                   coefficient_half_width_time)))))

\* mutant: the northward crest placed at the southward crest's distance
calculate_ionization_crest_1_At15(self) ==
  LET half_width == calculate_half_width(self)
      northward_crest_degrees == Fx(15)
      d == self.geommagnetic_latitude - northward_crest_degrees
  IN  -DivFx(MulFx(d, d), MulFx(Fx(2), MulFx(half_width, half_width)))

calculate_ionization_crest_1(self) ==
  LET half_width == calculate_half_width(self)
      northward_crest_degrees == Fx(16)
      d == self.geommagnetic_latitude - northward_crest_degrees
  IN  -DivFx(MulFx(d, d), MulFx(Fx(2), MulFx(half_width, half_width)))

calculate_ionization_crest_2(self) ==
  LET half_width == calculate_half_width(self)
      southward_crest_degrees == -Fx(15)
      d == self.geommagnetic_latitude - southward_crest_degrees
  IN  -DivFx(MulFx(d, d), MulFx(Fx(2), MulFx(half_width, half_width)))

\* mutant: the constant term 1 left out
calculate_ionization_crest_F4_NoConstant(self, c) ==
  LET ionization_crest_1 == calculate_ionization_crest_1(self)
      ionization_crest_2 == calculate_ionization_crest_2(self)
  IN  IF IndexRaises(c, 9) \/ IndexRaises(c, 10) THEN Raise("IndexError")
      ELSE Value(MulFx(At(c, 9), Exp(ionization_crest_1))
                 + MulFx(At(c, 10), Exp(ionization_crest_2)))

calculate_ionization_crest_F4(self, c) ==
  LET ionization_crest_1 == calculate_ionization_crest_1(self)
      ionization_crest_2 == calculate_ionization_crest_2(self)
  IN  IF IndexRaises(c, 9) \/ IndexRaises(c, 10) THEN Raise("IndexError")
      ELSE Value(SCALE + MulFx(At(c, 9), Exp(ionization_crest_1))
                 + MulFx(At(c, 10), Exp(ionization_crest_2)))

(***************************************************************************)
(* SolarActivityF5                                                         *)
(***************************************************************************)
\* mutant: the delta_F107 multiplier left out
calculate_solar_activity_F5_NoDelta(self, c) ==
  IF IndexRaises(c, 11) \/ IndexRaises(c, 12) THEN Raise("IndexError")
  ELSE Value(At(c, 11) + MulFx(At(c, 12), self.solar_flux_F107))

calculate_solar_activity_F5(self, c) ==
  LET delta_F107 == Fx(12)
  IN  IF IndexRaises(c, 11) \/ IndexRaises(c, 12) THEN Raise("IndexError")
      ELSE Value(At(c, 11)
                 + MulFx(MulFx(At(c, 12), self.solar_flux_F107), delta_F107))

(***************************************************************************)
(* NeustrelitzPeakDensityModel (the combiner)                              *)
(***************************************************************************)
NaN == [kind |-> "nan", val |-> 0]

PosInf == [kind |-> "inf", val |-> 0]

NegInf == [kind |-> "-inf", val |-> 0]

IsFinite(a) == a.kind = "value"

\* the largest finite float of the model (sys.float_info.max of binary64)
MaxFloat == 2000000000

\* the product of two finite floats exceeds the largest finite float
Overflows(x, y) == Abs(y) > MaxFloat \div (Abs(x) \div SCALE + 1)

\* float * float with IEEE-754 non-finite operands and overflow to infinity
FMul(a, b) ==
  LET neg(x) == x.kind = "-inf" \/ (x.kind = "value" /\ x.val < 0)
      zero(x) == x.kind = "value" /\ x.val = 0
  IN  IF a.kind = "nan" \/ b.kind = "nan" THEN NaN
      ELSE IF IsFinite(a) /\ IsFinite(b) /\ ~Overflows(a.val, b.val)
           THEN Value(MulFx(a.val, b.val))
      ELSE IF zero(a) \/ zero(b) THEN NaN
      ELSE IF neg(a) # neg(b) THEN NegInf
      ELSE PosInf

\* mutant: the last factor left out of the product
calculate_neustrelitz_peak_electron_model_DropsF5(self) ==
  FMul(FMul(FMul(self.local_time_F1, self.seasonal_variation_F2),
            self.geomagentic_field_dependency_F3),
       self.ionization_crest_F4)

\* mutant: non-finite inputs replaced by 0 before multiplying
calculate_neustrelitz_peak_electron_model_Sanitised(self) ==
  LET clean(x) == IF IsFinite(x) THEN x ELSE Value(0)
  IN  FMul(FMul(FMul(FMul(clean(self.local_time_F1),
                          clean(self.seasonal_variation_F2)),
                     clean(self.geomagentic_field_dependency_F3)),
                clean(self.ionization_crest_F4)),
           clean(self.solar_activity_F5))

calculate_neustrelitz_peak_electron_model(self) ==
  FMul(FMul(FMul(FMul(self.local_time_F1, self.seasonal_variation_F2),
                 self.geomagentic_field_dependency_F3),
            self.ionization_crest_F4),
       self.solar_activity_F5)

(***************************************************************************)
(* State: the caller's coefficient list and observation variables, the     *)
(* calculator instances built from them (inst[n] is <<>> until the         *)
(* instance exists), the outcome of the latest calculate call on each, and *)
(* the number of calculate calls made on each.  An instance keeps a        *)
(* reference to the caller's list, not a copy, so every evaluation reads   *)
(* the variable coefficients.                                              *)
(***************************************************************************)
Factors == {"F1", "F2", "F3", "F4", "F5"}

Names == Factors \cup {"NPDM"}

\* calculate calls made on one instance
MaxCalls == 2

\* lines 560-570: the module-level scenario (sun declination 0.8712 at the
\* model's resolution)
FixedObservation ==
  [local_time_hours |-> Fx(18), day_of_year |-> Fx(258),
   latitude_radians |-> 867, geommagnetic_latitude |-> 49,
   sun_declination_radians |-> 871, solar_flux_F107 |-> 1500]

FixedCoefficients == [i \in 1..13 |-> Fx(i)]

\* observations a caller can pass: the fixed one and one-field variations
Observations ==
  {FixedObservation}
  \cup {[FixedObservation EXCEPT !.latitude_radians = l] : l \in {0, -867}}
  \cup {[FixedObservation EXCEPT !.local_time_hours = t] :
          t \in {Fx(-1), Fx(0), Fx(25)}}
  \cup {[FixedObservation EXCEPT !.day_of_year = d] : d \in {Fx(0), Fx(367)}}
  \cup {[FixedObservation EXCEPT !.solar_flux_F107 = x] : x \in {0, Fx(2)}}

\* the fixed vector with every entry of one factor's block replaced
BlockOf(f) ==
  CASE f = "F1" -> 0..5
    [] f = "F2" -> 6..7
    [] f = "F3" -> 8..8
    [] f = "F4" -> 9..10
    [] f = "F5" -> 11..12

Variant(f) ==
  [i \in 1..13 |-> IF (i - 1) \in BlockOf(f) THEN -500 ELSE Fx(i)]

\* lists a caller can pass: full vectors and prefixes of the fixed one
ShortLengths == {0, 5, 6, 8, 9, 11, 12}

CoefficientVectors ==
  {FixedCoefficients}
  \cup {Variant(f) : f \in Factors}
  \cup {SubSeq(FixedCoefficients, 1, n) : n \in ShortLengths}

Init ==
  /\ obs \in Observations
  /\ coefficients \in CoefficientVectors
  /\ obs = FixedObservation \/ coefficients = FixedCoefficients
       \/ (obs.latitude_radians = 0 /\ Len(coefficients) = 5)
  /\ inst = [n \in Names |-> <<>>]
  /\ result = [n \in Names |-> NoResult]
  /\ calls = [n \in Names |-> 0]

\* a calculate call on instance n with outcome r; the call is one step, since a
\* calculate method writes only its own local variables until it returns
Called(n, r) ==
  /\ Len(inst[n]) = 1
  /\ calls[n] < MaxCalls
  /\ result' = [result EXCEPT ![n] = r]
  /\ calls' = [calls EXCEPT ![n] = @ + 1]

LocalTimeF1_init ==
  /\ Len(inst["F1"]) = 0
  /\ inst' = [inst EXCEPT !["F1"] =
                <<[local_time_hours |-> obs.local_time_hours,
                   latitude_radians |-> obs.latitude_radians,
                   sun_declination_radians |-> obs.sun_declination_radians,
                   day_of_year |-> obs.day_of_year]>>]
  /\ UNCHANGED <<coefficients, obs, result, calls>>

\* mutant: the evaluation clears an entry of the shared list
LocalTimeF1_calculate_WritesList ==
  /\ Called("F1", calculate_local_time_F1(inst["F1"][1], coefficients))
  /\ coefficients' = [i \in 1..Len(coefficients) |->
                        IF i = 7 THEN 0 ELSE coefficients[i]]
  /\ UNCHANGED <<obs, inst>>

LocalTimeF1_calculate ==
  /\ Called("F1", calculate_local_time_F1(inst["F1"][1], coefficients))
  /\ UNCHANGED <<coefficients, obs, inst>>

SeasonalVariationF2_init ==
  /\ Len(inst["F2"]) = 0
  /\ inst' = [inst EXCEPT !["F2"] = <<[day_of_year |-> obs.day_of_year]>>]
  /\ UNCHANGED <<coefficients, obs, result, calls>>

\* mutant: a second call returns the value stored by the first
SeasonalVariationF2_calculate_Cached ==
  /\ Called("F2", IF result["F2"].kind = "none"
                  THEN calculate_seasonal_variation_F2(inst["F2"][1], coefficients)
                  ELSE result["F2"])
  /\ UNCHANGED <<coefficients, obs, inst>>

SeasonalVariationF2_calculate ==
  /\ Called("F2", calculate_seasonal_variation_F2(inst["F2"][1], coefficients))
  /\ UNCHANGED <<coefficients, obs, inst>>

GeomagneticFieldDependencyF3_init ==
  /\ Len(inst["F3"]) = 0
  /\ inst' = [inst EXCEPT !["F3"] =
                <<[geommagnetic_latitude |-> obs.geommagnetic_latitude]>>]
  /\ UNCHANGED <<coefficients, obs, result, calls>>

GeomagneticFieldDependencyF3_calculate ==
  /\ Called("F3", calculate_geomagentic_field_dependency(inst["F3"][1], coefficients))
  /\ UNCHANGED <<coefficients, obs, inst>>

IonizationCrestsF4_init ==
  /\ Len(inst["F4"]) = 0
  /\ inst' = [inst EXCEPT !["F4"] =
                <<[geommagnetic_latitude |-> obs.geommagnetic_latitude,
                   local_time_hours |-> obs.local_time_hours]>>]
  /\ UNCHANGED <<coefficients, obs, result, calls>>

\* mutant: the evaluation pops the last entry of the shared list
IonizationCrestsF4_calculate_Pops ==
  /\ Called("F4", calculate_ionization_crest_F4(inst["F4"][1], coefficients))
  /\ coefficients' = SubSeq(coefficients, 1, Len(coefficients) - 1)
  /\ UNCHANGED <<obs, inst>>

IonizationCrestsF4_calculate ==
  /\ Called("F4", calculate_ionization_crest_F4(inst["F4"][1], coefficients))
  /\ UNCHANGED <<coefficients, obs, inst>>

SolarActivityF5_init ==
  /\ Len(inst["F5"]) = 0
  /\ inst' = [inst EXCEPT !["F5"] = <<[solar_flux_F107 |-> obs.solar_flux_F107]>>]
  /\ UNCHANGED <<coefficients, obs, result, calls>>

\* mutant: the evaluation adds to the value left by the previous call
SolarActivityF5_calculate_Accumulates ==
  /\ Called("F5",
            LET r == calculate_solar_activity_F5(inst["F5"][1], coefficients)
            IN  IF r.kind = "value" THEN Value(r.val + result["F5"].val) ELSE r)
  /\ UNCHANGED <<coefficients, obs, inst>>

SolarActivityF5_calculate ==
  /\ Called("F5", calculate_solar_activity_F5(inst["F5"][1], coefficients))
  /\ UNCHANGED <<coefficients, obs, inst>>

NeustrelitzPeakDensityModel_init(f1, f2, f3, f4, f5) ==
  /\ inst' = [inst EXCEPT !["NPDM"] =
                <<[local_time_F1 |-> f1, seasonal_variation_F2 |-> f2,
                   geomagentic_field_dependency_F3 |-> f3,
                   ionization_crest_F4 |-> f4, solar_activity_F5 |-> f5]>>]
  /\ UNCHANGED <<coefficients, obs>>

NeustrelitzPeakDensityModel_calculate ==
  /\ Called("NPDM", calculate_neustrelitz_peak_electron_model(inst["NPDM"][1]))
  /\ UNCHANGED <<coefficients, obs, inst>>

\* lines 602-603: the combiner is built from the five computed factor values
\* (an exception in a factor evaluation ends the script before this line)
PipelineCombine ==
  /\ Len(inst["NPDM"]) = 0
  /\ \A f \in Factors : result[f].kind = "value"
  /\ NeustrelitzPeakDensityModel_init(result["F1"], result["F2"], result["F3"],
                                      result["F4"], result["F5"])
  /\ UNCHANGED <<result, calls>>

Next ==
  \/ LocalTimeF1_init
  \/ LocalTimeF1_calculate
  \/ SeasonalVariationF2_init
  \/ SeasonalVariationF2_calculate
  \/ GeomagneticFieldDependencyF3_init
  \/ GeomagneticFieldDependencyF3_calculate
  \/ IonizationCrestsF4_init
  \/ IonizationCrestsF4_calculate
  \/ SolarActivityF5_init
  \/ SolarActivityF5_calculate
  \/ PipelineCombine
  \/ NeustrelitzPeakDensityModel_calculate

Spec == Init /\ [][Next]_vars

(***************************************************************************)
(* The combiner on its own: a caller builds it from any five floats.       *)
(***************************************************************************)
FactorValues == {Value(0), Value(Fx(2)), Value(-1500), NaN, PosInf, NegInf}

CombinerInit ==
  /\ obs = FixedObservation
  /\ coefficients \in {FixedCoefficients, <<>>}
  /\ inst = [n \in Names |-> <<>>]
  /\ result = [n \in Names |-> NoResult]
  /\ calls = [n \in Names |-> 0]

\* the caller builds one combiner instance from five floats of its choice
CombinerConstruct ==
  /\ Len(inst["NPDM"]) = 0
  /\ \E f1 \in FactorValues, f2 \in FactorValues, f3 \in FactorValues,
        f4 \in FactorValues, f5 \in FactorValues :
       NeustrelitzPeakDensityModel_init(f1, f2, f3, f4, f5)
  /\ UNCHANGED <<result, calls>>

CombinerNext ==
  \/ CombinerConstruct
  \/ NeustrelitzPeakDensityModel_calculate

CombinerSpec == CombinerInit /\ [][CombinerNext]_vars

(***************************************************************************)
(* The module-level script (lines 560-605): the six instances are built    *)
(* and evaluated once each, in the order of the file, on the observation   *)
(* and the list the caller has set.  An exception ends the script.         *)
(***************************************************************************)
\* all entries zero except the constant term c[11] = 1
ZeroEffect == [i \in 1..13 |-> IF i = 12 THEN Fx(1) ELSE 0]

\* local times in [0, 24), and one far outside it
ScriptLocalTimes == {Fx(0), Fx(13), Fx(14), Fx(18), Fx(120)}

\* days of the year, and the same days one period of 365.25 days later
ScriptDays ==
  {Fx(1), Fx(100), Fx(181), Fx(258), Fx(366)}
  \cup {Fx(1) + 365250, Fx(100) + 365250, Fx(258) + 365250}

ScriptLatitudes == {867, -867}

\* geomagnetic latitudes around both crests, and the fixed 0.049
ScriptGeomagneticLatitudes ==
  {-Fx(16), -Fx(15), -Fx(14), 0, 49, Fx(15), Fx(16), Fx(17)}

ScriptObservations ==
  {[local_time_hours |-> t, day_of_year |-> d, latitude_radians |-> l,
    geommagnetic_latitude |-> g,
    sun_declination_radians |-> FixedObservation.sun_declination_radians,
    solar_flux_F107 |-> FixedObservation.solar_flux_F107] :
     t \in ScriptLocalTimes, d \in ScriptDays, l \in ScriptLatitudes,
     g \in ScriptGeomagneticLatitudes}

ScriptVectors == {FixedCoefficients, ZeroEffect, Variant("F3")}

ScriptInit ==
  /\ obs \in ScriptObservations
  /\ coefficients \in ScriptVectors
  /\ inst = [n \in Names |-> <<>>]
  /\ result = [n \in Names |-> NoResult]
  /\ calls = [n \in Names |-> 0]

\* the statements of the script before instance n is built have completed
Reached(n) ==
  \A m \in Names :
    (CASE m = "NPDM" -> 6 [] m = "F5" -> 5 [] m = "F4" -> 4
       [] m = "F3" -> 3 [] m = "F2" -> 2 [] m = "F1" -> 1)
    < (CASE n = "NPDM" -> 6 [] n = "F5" -> 5 [] n = "F4" -> 4
         [] n = "F3" -> 3 [] n = "F2" -> 2 [] n = "F1" -> 1)
      => calls[m] = 1 /\ result[m].kind = "value"

ScriptNext ==
  \/ Reached("F1") /\ LocalTimeF1_init
  \/ calls["F1"] = 0 /\ LocalTimeF1_calculate
  \/ Reached("F2") /\ SeasonalVariationF2_init
  \/ calls["F2"] = 0 /\ SeasonalVariationF2_calculate
  \/ Reached("F3") /\ GeomagneticFieldDependencyF3_init
  \/ calls["F3"] = 0 /\ GeomagneticFieldDependencyF3_calculate
  \/ Reached("F4") /\ IonizationCrestsF4_init
  \/ calls["F4"] = 0 /\ IonizationCrestsF4_calculate
  \/ Reached("F5") /\ SolarActivityF5_init
  \/ calls["F5"] = 0 /\ SolarActivityF5_calculate
  \/ Reached("NPDM") /\ PipelineCombine
  \/ calls["NPDM"] = 0 /\ NeustrelitzPeakDensityModel_calculate

ScriptSpec == ScriptInit /\ [][ScriptNext]_vars

\* the order of the script's statements
ScriptOrder == <<"F1", "F2", "F3", "F4", "F5", "NPDM">>

\* lines 576-605: each result is printed by the statement after its
\* assignment, so standard output holds the results assigned so far, in the
\* order of the script (a call that raises assigns and prints nothing)
Printed ==
  LET done == {i \in 1..Len(ScriptOrder) :
                 /\ calls[ScriptOrder[i]] > 0
                 /\ result[ScriptOrder[i]].kind
                      \notin {"none", "ZeroDivisionError", "IndexError"}}
  IN  [i \in 1..Cardinality(done) |-> result[ScriptOrder[i]]]

(***************************************************************************)
(* One calculator instance in the hands of a caller who evaluates it and   *)
(* assigns to its public input attributes between evaluations.             *)
(***************************************************************************)
\* a second value for every input attribute
OtherObservation ==
  [local_time_hours |-> Fx(14), day_of_year |-> Fx(100),
   latitude_radians |-> -867, geommagnetic_latitude |-> Fx(15),
   sun_declination_radians |-> 0, solar_flux_F107 |-> Fx(2)]

AttrInit ==
  /\ obs = FixedObservation
  /\ coefficients = FixedCoefficients
  /\ inst = [n \in Names |-> <<>>]
  /\ result = [n \in Names |-> NoResult]
  /\ calls = [n \in Names |-> 0]

\* the caller's statement  instance.a = v  on the instance of factor n
SetAttr(n, a, v) ==
  /\ Len(inst[n]) = 1
  /\ inst[n][1][a] # v
  /\ inst' = [inst EXCEPT ![n] = <<[inst[n][1] EXCEPT ![a] = v]>>]
  /\ UNCHANGED <<coefficients, obs, result, calls>>

\* the caller holds one calculator at a time
NoInstance == \A n \in Names : Len(inst[n]) = 0

AttrNext ==
  \/ NoInstance /\ LocalTimeF1_init
  \/ LocalTimeF1_calculate
  \/ NoInstance /\ SeasonalVariationF2_init
  \/ SeasonalVariationF2_calculate
  \/ NoInstance /\ GeomagneticFieldDependencyF3_init
  \/ GeomagneticFieldDependencyF3_calculate
  \/ NoInstance /\ IonizationCrestsF4_init
  \/ IonizationCrestsF4_calculate
  \/ NoInstance /\ SolarActivityF5_init
  \/ SolarActivityF5_calculate
  \/ \E n \in Factors :
       /\ Len(inst[n]) = 1
       /\ \E a \in DOMAIN inst[n][1] :
            \E v \in {FixedObservation[a], OtherObservation[a]} : SetAttr(n, a, v)

AttrSpec == AttrInit /\ [][AttrNext]_vars

(***************************************************************************)
(* src/propagation: CoordinateInterpolation and CoordinateElevationFetcher *)
(* Coordinates are floats in degrees; granularity_meters is a whole number *)
(* of meters (the int a caller passes, as in 1000).  In this part result   *)
(* and calls are indexed by method name and inst by class name.            *)
(***************************************************************************)
\* an exception raised by a method that returns a list
RaiseList(e) == [kind |-> e, val |-> <<>>]

\* a method returned None
ReturnedNone == [kind |-> "None", val |-> <<>>]

NoList == [kind |-> "none", val |-> <<>>]

\* math.radians
Radians(x) == MulFx(x, PI) \div 180

\* math.sqrt of x in [0, 2147): the largest r with r * r <= x
Sqrt(x) ==
  CHOOSE r \in 0..46339 :
    r * r <= x * SCALE /\ (r + 1) * (r + 1) > x * SCALE

\* the power series of asin on [0, 0.71]
AsinSeries(x) ==
  LET x2 == MulFx(x, x)
      x3 == MulFx(x, x2)
      x5 == MulFx(x3, x2)
      x7 == MulFx(x5, x2)
      x9 == MulFx(x7, x2)
  IN  x + x3 \div 6 + (3 * x5) \div 40 + (5 * x7) \div 112 + (35 * x9) \div 1152

\* math.asin of x in [0, 1]: asin(x) = pi/2 - asin(sqrt(1 - x^2)) above 0.71
Asin(x) ==
  IF x <= 710 THEN AsinSeries(x)
  ELSE HalfPi - AsinSeries(Sqrt(SCALE - MulFx(x, x)))

\* Python round() of a float: to the nearest integer, ties to even
Round(x) ==
  LET w == Abs(x) \div SCALE
      f == Abs(x) % SCALE
      up == f > SCALE \div 2 \/ (f = SCALE \div 2 /\ w % 2 = 1)
  IN  Sgn(x) * (IF up THEN w + 1 ELSE w)

\* lines 57-86: the haversine distance; math.sqrt and math.asin raise
\* ValueError outside their domains
calculate_distance_km(self) ==
  LET longitude_a == Radians(self.longitude_point_a)
      latitude_a == Radians(self.latitude_point_a)
      longitude_b == Radians(self.longitude_point_b)
      latitude_b == Radians(self.latitude_point_b)
      distance_longitude == longitude_a - longitude_b
      distance_latitude == latitude_a - latitude_b
      sin_lat == Sin(distance_latitude \div 2)
      sin_lon == Sin(distance_longitude \div 2)
      haversine_half_angle ==
        MulFx(sin_lat, sin_lat)
        + MulFx(MulFx(Cos(latitude_a), Cos(latitude_b)), MulFx(sin_lon, sin_lon))
      radius_earth == Fx(6371)
      \* the outcome for each value of sqrt(haversine_half_angle): one
      outcomes ==
        {IF root > SCALE THEN Raise("ValueError")
         ELSE Value(MulFx(2 * Asin(root), radius_earth)) :
           root \in {Sqrt(h) : h \in {haversine_half_angle}}}
  IN  IF haversine_half_angle < 0 THEN Raise("ValueError")
      ELSE CHOOSE distance_km_points \in outcomes : TRUE

\* lines 88-103
calculate_number_of_points(self) ==
  LET d == calculate_distance_km(self)
  IN  IF d.kind # "value" THEN d
      ELSE IF DivRaises(self.granularity_meters) THEN Raise("ZeroDivisionError")
      ELSE LET distance_km == MulFx(d.val, Fx(1000))
           IN  Value(Round(distance_km \div self.granularity_meters))

\* np.linspace(0, 1, num) for num >= 0: num samples, sample i at i/(num - 1)
\* (a single sample is the start value, no sample at all for num = 0)
linspace(num) ==
  [i \in 1..num |->
     IF i = 1 THEN 0 ELSE DivFx(Fx(i - 1), Fx(num - 1))]

\* lines 119-127: the points for a number of samples
InterpolatedPoints(self, num) ==
  LET t_values == linspace(num)
  IN  [i \in 1..num |->
         [latitude |->
            self.latitude_point_a
            + MulFx(t_values[i], self.latitude_point_b - self.latitude_point_a),
          longitude |->
            self.longitude_point_a
            + MulFx(t_values[i], self.longitude_point_b - self.longitude_point_a)]]

\* lines 105-129; np.linspace raises ValueError for a negative number
interpolate_coordinates(self) ==
  CHOOSE interpolated_coordinates \in
    {IF number_of_points.kind # "value" THEN RaiseList(number_of_points.kind)
     ELSE IF number_of_points.val < 0 THEN RaiseList("ValueError")
     ELSE Value(InterpolatedPoints(self, number_of_points.val)) :
       number_of_points \in {calculate_number_of_points(self)}} : TRUE

\* what the elevation service can answer to a request for these locations:
\* a failed request, one elevation per location, or fewer
Responses(locations) ==
  {[kind |-> "RequestException", val |-> <<>>]}
  \cup {[kind |-> "ok", val |-> [i \in 1..k |-> 400 + i]] :
          k \in {Len(locations), Len(locations) - 1} \cap Nat}

\* fetcher lines 74-97
get_elevation(locations, response) ==
  IF response.kind = "RequestException" THEN ReturnedNone
  ELSE Value(response.val)

\* Python zip of two lists, as a list of records
Zip(locations, elevations) ==
  LET n == IF Len(locations) < Len(elevations) THEN Len(locations)
           ELSE Len(elevations)
  IN  [i \in 1..n |->
         [latitude |-> locations[i].latitude,
          longitude |-> locations[i].longitude,
          elevation |-> elevations[i]]]

\* fetcher lines 99-117, given what get_elevation returned; zip(list, None)
\* raises TypeError
get_elevation_data(locations_list, elevations) ==
  IF locations_list.kind # "value" THEN locations_list
  ELSE IF elevations.kind = "None" THEN RaiseList("TypeError")
  ELSE Value(Zip(locations_list.val, elevations.val))

Classes == {"CoordinateInterpolation", "CoordinateElevationFetcher"}

Methods == {"interpolate_coordinates", "get_elevation", "get_elevation_data"}

\* point a, and the points b a caller can pass with it (b = a included)
PointA == [latitude |-> Fx(40), longitude |-> Fx(5)]

PointsB ==
  {PointA,
   [latitude |-> Fx(40), longitude |-> Fx(15)],
   [latitude |-> Fx(47), longitude |-> Fx(5)],
   [latitude |-> Fx(34), longitude |-> -Fx(3)]}

\* steps from 50 km to 3000 km, and the step 0
Granularities == {0, 50000, 100000, 400000, 1000000, 3000000}

PropagationInputs ==
  {[latitude_point_a |-> PointA.latitude, longitude_point_a |-> PointA.longitude,
    latitude_point_b |-> b.latitude, longitude_point_b |-> b.longitude,
    granularity_meters |-> g] : b \in PointsB, g \in Granularities}

\* the coefficient list plays no part in src/propagation
PropagationInit ==
  /\ obs \in PropagationInputs
  /\ coefficients = <<>>
  /\ inst = [n \in Classes |-> <<>>]
  /\ result = [m \in Methods |-> NoList]
  /\ calls = [m \in Methods |-> 0]

\* a call of method m by the caller, with outcome r
MethodCalled(m, r) ==
  /\ calls[m] < MaxCalls
  /\ result' = [result EXCEPT ![m] = r]
  /\ calls' = [calls EXCEPT ![m] = @ + 1]

CoordinateInterpolation_init ==
  /\ Len(inst["CoordinateInterpolation"]) = 0
  /\ inst' = [inst EXCEPT !["CoordinateInterpolation"] = <<obs>>]
  /\ UNCHANGED <<coefficients, obs, result, calls>>

CoordinateInterpolation_interpolate_coordinates ==
  /\ Len(inst["CoordinateInterpolation"]) = 1
  /\ MethodCalled("interpolate_coordinates",
                  interpolate_coordinates(inst["CoordinateInterpolation"][1]))
  /\ UNCHANGED <<coefficients, obs, inst>>

CoordinateElevationFetcher_init ==
  /\ Len(inst["CoordinateElevationFetcher"]) = 0
  /\ inst' = [inst EXCEPT !["CoordinateElevationFetcher"] = <<obs>>]
  /\ UNCHANGED <<coefficients, obs, result, calls>>

\* the caller passes get_elevation the list interpolate_coordinates returned
CoordinateElevationFetcher_get_elevation ==
  /\ Len(inst["CoordinateElevationFetcher"]) = 1
  /\ result["interpolate_coordinates"].kind = "value"
  /\ \E response \in Responses(result["interpolate_coordinates"].val) :
       MethodCalled("get_elevation",
                    get_elevation(result["interpolate_coordinates"].val, response))
  /\ UNCHANGED <<coefficients, obs, inst>>

\* fetcher lines 111-117: the interpolation of a new CoordinateInterpolation
\* built from the fetcher's attributes (lines 57-72), the lookup, the zip;
\* result["get_elevation"] is what the lookup made inside the call returned
CoordinateElevationFetcher_get_elevation_data ==
  /\ Len(inst["CoordinateElevationFetcher"]) = 1
  /\ calls["get_elevation_data"] < MaxCalls
  /\ \E locations_list \in
          {interpolate_coordinates(inst["CoordinateElevationFetcher"][1])} :
       IF locations_list.kind # "value"
       THEN result' = [result EXCEPT !["get_elevation_data"] = locations_list]
       ELSE \E response \in Responses(locations_list.val) :
              LET elevations == get_elevation(locations_list.val, response)
              IN  result' = [result EXCEPT
                               !["get_elevation"] = elevations,
                               !["get_elevation_data"] =
                                  get_elevation_data(locations_list, elevations)]
  /\ calls' = [calls EXCEPT !["get_elevation_data"] = @ + 1]
  /\ UNCHANGED <<coefficients, obs, inst>>

PropagationNext ==
  \/ CoordinateInterpolation_init
  \/ CoordinateInterpolation_interpolate_coordinates
  \/ CoordinateElevationFetcher_init
  \/ CoordinateElevationFetcher_get_elevation
  \/ CoordinateElevationFetcher_get_elevation_data

PropagationSpec == PropagationInit /\ [][PropagationNext]_vars

(***************************************************************************)
(* src/propagation: FresnelZone and KnifeEdgeDiffraction.  An attribute is *)
(* a Python value: a number, or a value that is not a number (a str).      *)
(* result and calls are indexed by method name, and by "print" for the     *)
(* calls of print; inst is indexed by class name.                          *)
(***************************************************************************)
Num(v) == [type |-> "float", val |-> v]

Str == [type |-> "str", val |-> 0]

IsNumber(v) == v.type = "float"

\* a method reaches its end without a return statement: it returns None
FellThrough == [kind |-> "None", val |-> 0]

\* what a call returned, and the lines it printed
Returned(r, lines) == [returned |-> r, printed |-> lines]

\* fresnel_zone.py lines 50-52, the body of the try: arithmetic on a str
\* raises TypeError, math.sqrt of a negative number raises ValueError
fresnel_zone(self) ==
  IF ~IsNumber(self.wavelength_meter) \/ ~IsNumber(self.distance_meter)
  THEN Raise("TypeError")
  ELSE CHOOSE r \in
         {IF product < 0 THEN Raise("ValueError")
          ELSE Value(MulFx(Sqrt(product) \div 2, 600)) :
            product \in {MulFx(self.wavelength_meter.val,
                               self.distance_meter.val)}} : TRUE

\* mutant: only the ValueError of math.sqrt is caught
calc_fresnel_zone_CatchesValueError(self) ==
  LET body == fresnel_zone(self)
  IN  IF body.kind = "ValueError"
      THEN Returned(FellThrough, <<"Please only provide numbers.">>)
      ELSE Returned(body, <<>>)

\* fresnel_zone.py lines 37-54: the bare except catches every exception
calc_fresnel_zone(self) ==
  LET body == fresnel_zone(self)
  IN  IF body.kind = "value" THEN Returned(body, <<>>)
      ELSE Returned(FellThrough, <<"Please only provide numbers.">>)

\* knife_edge_diffraction.py lines 60-64, the body of the try
fresnel_diffraction_parameter(self) ==
  IF \E a \in {"distance_receiver_obstruction", "distance_transmitter_obstruction",
               "height_obstruction", "wavelength_meter"} : ~IsNumber(self[a])
  THEN Raise("TypeError")
  ELSE CHOOSE r \in
         {IF DivRaises(denominator) THEN Raise("ZeroDivisionError")
          ELSE IF DivFx(numerator, denominator) < 0 THEN Raise("ValueError")
          ELSE Value(MulFx(self.height_obstruction.val,
                           Sqrt(DivFx(numerator, denominator)))) :
            numerator \in {2 * (self.distance_transmitter_obstruction.val
                                + self.distance_receiver_obstruction.val)},
            denominator \in {MulFx(MulFx(self.wavelength_meter.val,
                                         self.distance_transmitter_obstruction.val),
                                   self.distance_receiver_obstruction.val)}} : TRUE

\* knife_edge_diffraction.py lines 47-67
calc_knife_edge_diffraction(self) ==
  LET body == fresnel_diffraction_parameter(self)
  IN  IF body.kind = "value" THEN Returned(body, <<>>)
      ELSE Returned(FellThrough,
                    <<"Please provide only integer (round) numbers for the distance and height.">>)

DiffractionClasses == {"FresnelZone", "KnifeEdgeDiffraction"}

DiffractionMethods == {"calc_fresnel_zone", "calc_knife_edge_diffraction"}

\* values a caller can pass: wavelengths, distances and heights in meters
Wavelengths == {Num(700), Num(0), Num(-700), Str}

Distances == {Num(Fx(100)), Num(0), Num(-Fx(100)), Str}

ObstructionDistances == {Num(Fx(10)), Num(0), Num(-Fx(10)), Str}

Heights == {Num(Fx(20)), Str}

\* the stations' distance is also the transmitter's distance to the obstruction
DiffractionInputs ==
  {[wavelength_meter |-> w, distance_meter |-> d,
    distance_receiver_obstruction |-> r, distance_transmitter_obstruction |-> d,
    height_obstruction |-> h] :
     w \in Wavelengths, d \in Distances, r \in ObstructionDistances, h \in Heights}

DiffractionInit ==
  /\ obs \in DiffractionInputs
  /\ coefficients = <<>>
  /\ inst = [n \in DiffractionClasses |-> <<>>]
  /\ result = [m \in DiffractionMethods \cup {"print"} |-> NoResult]
  /\ calls = [m \in DiffractionMethods \cup {"print"} |-> 0]

\* a call of method m by the caller that returned r.returned after printing
\* r.printed (at most one line); result["print"] holds the line last printed
MethodReturned(m, r) ==
  /\ calls[m] < MaxCalls
  /\ result' = [result EXCEPT
                  ![m] = r.returned,
                  !["print"] = IF r.printed = <<>> THEN @
                               ELSE [kind |-> "None", val |-> r.printed[1]]]
  /\ calls' = [calls EXCEPT
                 ![m] = @ + 1,
                 !["print"] = @ + Len(r.printed)]

FresnelZone_init ==
  /\ Len(inst["FresnelZone"]) = 0
  /\ inst' = [inst EXCEPT !["FresnelZone"] =
                <<[wavelength_meter |-> obs.wavelength_meter,
                   distance_meter |-> obs.distance_meter]>>]
  /\ UNCHANGED <<coefficients, obs, result, calls>>

FresnelZone_calc_fresnel_zone ==
  /\ Len(inst["FresnelZone"]) = 1
  /\ \E r \in {calc_fresnel_zone(inst["FresnelZone"][1])} :
       MethodReturned("calc_fresnel_zone", r)
  /\ UNCHANGED <<coefficients, obs, inst>>

KnifeEdgeDiffraction_init ==
  /\ Len(inst["KnifeEdgeDiffraction"]) = 0
  /\ inst' = [inst EXCEPT !["KnifeEdgeDiffraction"] =
                <<[distance_receiver_obstruction |->
                     obs.distance_receiver_obstruction,
                   distance_transmitter_obstruction |->
                     obs.distance_transmitter_obstruction,
                   height_obstruction |-> obs.height_obstruction,
                   wavelength_meter |-> obs.wavelength_meter]>>]
  /\ UNCHANGED <<coefficients, obs, result, calls>>

KnifeEdgeDiffraction_calc_knife_edge_diffraction ==
  /\ Len(inst["KnifeEdgeDiffraction"]) = 1
  /\ \E r \in {calc_knife_edge_diffraction(inst["KnifeEdgeDiffraction"][1])} :
       MethodReturned("calc_knife_edge_diffraction", r)
  /\ UNCHANGED <<coefficients, obs, inst>>

DiffractionNext ==
  \/ FresnelZone_init
  \/ FresnelZone_calc_fresnel_zone
  \/ KnifeEdgeDiffraction_init
  \/ KnifeEdgeDiffraction_calc_knife_edge_diffraction

DiffractionSpec == DiffractionInit /\ [][DiffractionNext]_vars

(***************************************************************************)
(* Properties                                                              *)
(***************************************************************************)
\* the outcome of factor f's calculate method on instance attributes self
Outcome(f, self, c) ==
  CASE f = "F1" -> calculate_local_time_F1(self, c)
    [] f = "F2" -> calculate_seasonal_variation_F2(self, c)
    [] f = "F3" -> calculate_geomagentic_field_dependency(self, c)
    [] f = "F4" -> calculate_ionization_crest_F4(self, c)
    [] f = "F5" -> calculate_solar_activity_F5(self, c)

Evaluated(n) == Len(inst[n]) = 1 /\ result[n].kind # "none"

\* the five floats a combiner instance was given
Given(self) ==
  <<self.local_time_F1, self.seasonal_variation_F2,
    self.geomagentic_field_dependency_F3, self.ionization_crest_F4,
    self.solar_activity_F5>>

RECURSIVE FloatProduct(_)
\* the float product s[1] * s[2] * ... of a non-empty sequence
FloatProduct(s) ==
  IF Len(s) = 1 THEN s[1]
  ELSE FMul(FloatProduct(SubSeq(s, 1, Len(s) - 1)), s[Len(s)])

\* C1: whatever five factor values a combiner instance was given, its
\* calculate method returns their product f1*f2*f3*f4*f5 and nothing else
\* (in particular it does not depend on the coefficient list).
C1_CombinerReturnsProduct ==
  Evaluated("NPDM") => result["NPDM"] = FloatProduct(Given(inst["NPDM"][1]))

C1_Witness ==
  /\ Evaluated("NPDM")
  /\ Given(inst["NPDM"][1])
       = <<Value(Fx(2)), Value(-1500), Value(Fx(2)), Value(-1500), Value(Fx(2))>>
  /\ result["NPDM"] = Value(Fx(18))
  /\ coefficients = <<>>

\* C2: evaluating F1 with latitude_radians = 0 ends in a DomainError.
C2_LatitudeZeroRaisesDomainError ==
  (Evaluated("F1") /\ inst["F1"][1].latitude_radians = 0)
    => result["F1"].kind = "DomainError"

\* C3: no calculator produces anything but a ValidationError from a
\* coefficient vector with fewer than 13 entries.
C3_ShortVectorRejected ==
  \A f \in Factors :
    (Evaluated(f) /\ Len(coefficients) < 13)
      => result[f].kind = "ValidationError"

InTimeDomain(t) == 0 <= t /\ t < Fx(24)

InDayDomain(d) == Fx(1) <= d /\ d <= Fx(366)

\* C4: F1, F2 and F4 return no value for a local time outside [0,24) or a
\* day of year outside [1,366]; such an input ends in a ValidationError.
C4_OutOfDomainRejected ==
  /\ (Evaluated("F1") /\ ~(InTimeDomain(inst["F1"][1].local_time_hours)
                           /\ InDayDomain(inst["F1"][1].day_of_year)))
       => result["F1"].kind = "ValidationError"
  /\ (Evaluated("F2") /\ ~InDayDomain(inst["F2"][1].day_of_year))
       => result["F2"].kind = "ValidationError"
  /\ (Evaluated("F4") /\ ~InTimeDomain(inst["F4"][1].local_time_hours))
       => result["F4"].kind = "ValidationError"

\* C5: no construction or evaluation of a calculator changes the shared
\* coefficient list: its length and its entries stay as they were.
C5_CoefficientsNeverWritten == [][coefficients' = coefficients]_vars

C5_Witness ==
  /\ Len(coefficients) = 13
  /\ \A n \in Names : Evaluated(n) /\ calls[n] = MaxCalls

\* C6: a factor's value depends only on its own block of coefficient
\* positions: any other 13-entry vector that agrees with the list on the
\* factor's block gives the same value for the same instance attributes.
C6_OwnBlockOnly ==
  \A f \in Factors :
    (Evaluated(f) /\ Len(coefficients) = 13) =>
      \A c2 \in CoefficientVectors :
        (Len(c2) = 13 /\ \A i \in BlockOf(f) : At(c2, i) = At(coefficients, i))
          => Outcome(f, inst[f][1], c2) = result[f]

C6_Witness ==
  /\ coefficients = Variant("F2")
  /\ \A f \in Factors : Evaluated(f) /\ result[f].kind = "value"
  /\ \E c2 \in CoefficientVectors :
       /\ Len(c2) = 13 /\ c2 # coefficients
       /\ \A i \in BlockOf("F1") : At(c2, i) = At(coefficients, i)

C8_NonFinitePropagates ==
  Evaluated("NPDM") =>
    /\ result["NPDM"].kind \in {"value", "nan", "inf", "-inf"}
    /\ (\E i \in 1..5 : ~IsFinite(Given(inst["NPDM"][1])[i]))
         => ~IsFinite(result["NPDM"])

C8_Witness ==
  /\ Evaluated("NPDM")
  /\ Given(inst["NPDM"][1])
       = <<Value(Fx(2)), PosInf, Value(0), Value(Fx(2)), Value(Fx(2))>>
  /\ result["NPDM"] = NaN

\* C9: in whatever order the five factors are constructed and evaluated,
\* each factor's outcome is the one determined by the observation and the
\* coefficient list, and the final NmF2 is the product of those five.
C9_OrderIndependent ==
  /\ \A f \in Factors :
       Evaluated(f) => result[f] = Outcome(f, obs, coefficients)
  /\ Evaluated("NPDM") =>
       result["NPDM"]
         = FloatProduct(<<Outcome("F1", obs, coefficients),
                          Outcome("F2", obs, coefficients),
                          Outcome("F3", obs, coefficients),
                          Outcome("F4", obs, coefficients),
                          Outcome("F5", obs, coefficients)>>)

C9_Witness ==
  /\ obs = [FixedObservation EXCEPT !.latitude_radians = -867]
  /\ \A n \in Names : Evaluated(n)
  /\ IsFinite(result["NPDM"])

\* C10: a second calculate call on an instance returns what the first call
\* returned, for every factor and for the combiner.
C10_RepeatedCallSameOutput ==
  [][\A n \in Names :
       (calls[n] >= 1 /\ calls'[n] = calls[n] + 1) => result'[n] = result[n]]_vars

C10_Witness ==
  /\ obs = FixedObservation
  /\ coefficients = FixedCoefficients
  /\ \A n \in Names : calls[n] = 2 /\ result[n].kind = "value"

\* C11 as stated: with the zero-effect vector every factor and the final
\* NmF2 evaluate to 1.
C11_ZeroEffectAllOne ==
  coefficients = ZeroEffect =>
    \A n \in Names : Evaluated(n) => result[n] = Value(Fx(1))

\* C11 as amended: with the zero-effect vector F2, F3, F4 and F5 evaluate to
\* 1, F1 evaluates to the cosine of the further-adjusted zenith term, which
\* lies strictly between 0 and 1, and the final NmF2 is that F1 value.
C11_ZeroEffectLeavesF1 ==
  coefficients = ZeroEffect =>
    /\ \A f \in Factors \ {"F1"} : Evaluated(f) => result[f] = Value(Fx(1))
    /\ Evaluated("F1") =>
         /\ result["F1"] =
              Value(Cos(calculate_solar_zenith_angles(inst["F1"][1])
                          .cos_further_adjusted_zenith_angle))
         /\ 0 < result["F1"].val /\ result["F1"].val < Fx(1)
    /\ Evaluated("NPDM") => result["NPDM"] = result["F1"]

C11_Witness ==
  /\ coefficients = ZeroEffect
  /\ \A n \in Names : Evaluated(n)
  /\ result["F5"] = Value(Fx(1))
  /\ result["NPDM"] = result["F1"]
  /\ result["NPDM"].val < Fx(1)

\* C12: each crest exponent of F4 is <= 0 and is 0 only at its crest
\* latitude (16 for the first crest, -15 for the second), so for positive
\* c[9] and c[10] each crest term is largest exactly at its crest latitude.
C12_CrestsPeakAtCrestLatitudes ==
  Evaluated("F4") =>
    LET self == inst["F4"][1]
        e1 == calculate_ionization_crest_1(self)
        e2 == calculate_ionization_crest_2(self)
        c9 == At(coefficients, 9)
        c10 == At(coefficients, 10)
    IN  /\ e1 <= 0 /\ (e1 = 0 <=> self.geommagnetic_latitude = Fx(16))
        /\ e2 <= 0 /\ (e2 = 0 <=> self.geommagnetic_latitude = -Fx(15))
        /\ c9 > 0 =>
             /\ MulFx(c9, Exp(e1)) <= c9
             /\ MulFx(c9, Exp(e1)) = c9 <=> self.geommagnetic_latitude = Fx(16)
        /\ c10 > 0 =>
             /\ MulFx(c10, Exp(e2)) <= c10
             /\ MulFx(c10, Exp(e2)) = c10 <=> self.geommagnetic_latitude = -Fx(15)

C12_Witness ==
  /\ Evaluated("F4")
  /\ coefficients = FixedCoefficients
  /\ inst["F4"][1].geommagnetic_latitude = Fx(16)
  /\ calculate_ionization_crest_1(inst["F4"][1]) = 0
  /\ calculate_ionization_crest_2(inst["F4"][1]) < 0
  /\ result["F4"].val > Fx(11)

\* C13: at geomagnetic latitude 0 the geomagnetic field factor is exactly
\* 1 + c[8], whatever the coefficient vector.
C13_F3AtEquator ==
  (Evaluated("F3") /\ inst["F3"][1].geommagnetic_latitude = 0)
    => result["F3"] = Value(Fx(1) + At(coefficients, 8))

C13_Witness ==
  /\ Evaluated("F3")
  /\ inst["F3"][1].geommagnetic_latitude = 0
  /\ coefficients = Variant("F3")
  /\ result["F3"] = Value(500)

\* the period of the seasonal variation, 365.25 days
YearLength == 365250

\* C14: F2 has period 365.25 days: one period later the annual phase is one
\* full turn further and the semi-annual phase two full turns further (to
\* within one unit of the arithmetic's resolution), and F2 has the same
\* value: identical when both phases are non-negative, and otherwise within
\* the rounding of the two cosine terms.
C14_F2Periodic ==
  (Evaluated("F2") /\ inst["F2"][1].day_of_year > Fx(366)) =>
    LET later == inst["F2"][1]
        earlier == [day_of_year |-> later.day_of_year - YearLength]
        before == calculate_seasonal_variation_F2(earlier, coefficients)
    IN  /\ Abs(calculate_annual_variation(later)
               - calculate_annual_variation(earlier) - TwoPi) <= 1
        /\ Abs(calculate_semi_annual_variation(later)
               - calculate_semi_annual_variation(earlier) - 2 * TwoPi) <= 1
        /\ earlier.day_of_year >= Fx(18) => result["F2"] = before
        /\ result["F2"].kind = before.kind
        /\ Abs(result["F2"].val - before.val)
             <= 2 * ((Abs(At(coefficients, 6)) + Abs(At(coefficients, 7)))
                       \div SCALE) + 2

C14_Witness ==
  /\ Evaluated("F2")
  /\ coefficients = FixedCoefficients
  /\ inst["F2"][1].day_of_year = Fx(258) + YearLength
  /\ result["F2"] = Value(-8681)

\* C17 as stated: the crest half-width lies strictly between 10 and 20.
C17_HalfWidthStrictlyInside ==
  Evaluated("F4") =>
    /\ Fx(10) < calculate_half_width(inst["F4"][1])
    /\ calculate_half_width(inst["F4"][1]) < Fx(20)

\* C17 as amended: the crest half-width lies in the closed interval
\* [10, 20] and is exactly 10 at local time 14, so it is always > 0 and the
\* divisor 2 * half_width^2 of both crest exponents is never 0.
C17_HalfWidthInClosedInterval ==
  Evaluated("F4") =>
    LET half_width == calculate_half_width(inst["F4"][1])
    IN  /\ Fx(10) <= half_width /\ half_width <= Fx(20)
        /\ inst["F4"][1].local_time_hours = Fx(14) => half_width = Fx(10)
        /\ ~DivRaises(MulFx(Fx(2), MulFx(half_width, half_width)))
        /\ result["F4"].kind = "value"

C17_Witness ==
  /\ Evaluated("F4")
  /\ inst["F4"][1].local_time_hours = Fx(14)
  /\ calculate_half_width(inst["F4"][1]) = Fx(10)
  /\ result["F4"].kind = "value"

\* C18: the bite-out magnitude is the product of a Gaussian in latitude
\* (squared distance of |latitude| from 45 over 2*14^2), the seasonal cosine,
\* a Gaussian in local time centred on LTBO (squared distance of the local
\* time from LTBO over 2*3^2) and sign(latitude).
C18_BiteOutIsProductOfFourTerms ==
  (Evaluated("F1") /\ result["F1"].kind = "value") =>
    LET self == inst["F1"][1]
        ltbo == calculate_local_time_at_beginning_of_bite_out(self).val
        sign == DivFx(self.latitude_radians, Abs(self.latitude_radians))
        dl == Abs(self.latitude_radians) - Fx(45)
        latitude_gaussian ==
          Exp(-DivFx(MulFx(dl, dl), MulFx(Fx(2), MulFx(Fx(14), Fx(14)))))
        dt == self.local_time_hours - ltbo
        time_gaussian ==
          Exp(-DivFx(MulFx(dt, dt), MulFx(Fx(2), MulFx(Fx(3), Fx(3)))))
    IN  calculate_summer_daytime_bite_out(self).val
          = MulFx(MulFx(MulFx(latitude_gaussian, SeasonalCosine(self)),
                        time_gaussian),
                  sign)

\* C19: F1 is the sum of three terms: the cosine of the further-adjusted
\* zenith term; the harmonic sum c0*cos(diurnal) + c1*cos(semi-diurnal)
\* + c2*sin(semi-diurnal) + c3*cos(ter-diurnal) + c4*sin(ter-diurnal) times
\* the cosine of the adjusted zenith term; and c5 times the bite-out; all
\* derived from the attributes the instance holds.
C19_F1IsSumOfThreeTerms ==
  (Evaluated("F1") /\ result["F1"].kind = "value") =>
    LET self == inst["F1"][1]
        c == coefficients
        diurnal == DivFx(MulFx(TwoPi, self.local_time_hours - Fx(14)), Fx(24))
        semi_diurnal == DivFx(MulFx(TwoPi, self.local_time_hours), Fx(12))
        ter_diurnal == DivFx(MulFx(TwoPi, self.local_time_hours), Fx(8))
        z == calculate_solar_zenith_angles(self)
        harmonics ==
          MulFx(At(c, 0), Cos(diurnal))
          + MulFx(At(c, 1), Cos(semi_diurnal)) + MulFx(At(c, 2), Sin(semi_diurnal))
          + MulFx(At(c, 3), Cos(ter_diurnal)) + MulFx(At(c, 4), Sin(ter_diurnal))
        term1 == Cos(z.cos_further_adjusted_zenith_angle)
        term2 == MulFx(harmonics, Cos(z.cos_adjusted_zenith_angle))
        term3 == MulFx(At(c, 5), calculate_summer_daytime_bite_out(self).val)
    IN  result["F1"].val = term1 + term2 + term3

C19_Witness ==
  /\ Evaluated("F1")
  /\ coefficients = FixedCoefficients
  /\ inst["F1"][1] = [local_time_hours |-> Fx(18), latitude_radians |-> 867,
                      sun_declination_radians |-> 871, day_of_year |-> Fx(258)]
  /\ result["F1"] = Value(4060)

\* C20: no factor result is cached or shared: after any sequence of
\* evaluations and assignments to a calculator instance's input attributes,
\* an evaluation returns the value determined by the instance's current
\* attributes alone, and leaves every attribute of every instance unchanged.
C20_NoCaching ==
  [][\A n \in Factors :
       calls'[n] = calls[n] + 1 =>
         /\ inst' = inst
         /\ result'[n] = Outcome(n, inst[n][1], coefficients)]_vars

\* the crest factor evaluated twice, the second time on attributes the caller
\* changed, returning the value of the changed attributes and not the first
C20_Witness ==
  /\ calls["F4"] = 2
  /\ inst["F4"][1].local_time_hours # obs.local_time_hours
  /\ inst["F4"][1].geommagnetic_latitude # obs.geommagnetic_latitude
  /\ result["F4"] = Outcome("F4", inst["F4"][1], coefficients)
  /\ result["F4"] # Outcome("F4", obs, coefficients)

\* C15: when the elevation request made inside get_elevation_data fails, the
\* lookup returns a (partial or empty) sequence of elevations and
\* get_elevation_data completes with a list of records instead of raising.
C15_FailedRequestStillReturnsList ==
  [][calls'["get_elevation_data"] = calls["get_elevation_data"] + 1
     /\ interpolate_coordinates(inst["CoordinateElevationFetcher"][1]).kind = "value"
       => /\ result'["get_elevation"].kind = "value"
          /\ result'["get_elevation_data"].kind = "value"]_vars

\* the endpoints of an instance as points
EndpointA(self) ==
  [latitude |-> self.latitude_point_a, longitude |-> self.longitude_point_a]

EndpointB(self) ==
  [latitude |-> self.latitude_point_b, longitude |-> self.longitude_point_b]

\* consecutive points differ by the same step, up to the truncation of the
\* sample positions
EvenlySpaced(points, self) ==
  \A i \in 2..(Len(points) - 1) :
    /\ Abs((points[i + 1].latitude - points[i].latitude)
           - (points[i].latitude - points[i - 1].latitude))
         <= 2 * (Abs(self.latitude_point_b - self.latitude_point_a) \div SCALE) + 4
    /\ Abs((points[i + 1].longitude - points[i].longitude)
           - (points[i].longitude - points[i - 1].longitude))
         <= 2 * (Abs(self.longitude_point_b - self.longitude_point_a) \div SCALE) + 4

\* C16: for distinct endpoints A and B and a positive granularity,
\* interpolate_coordinates returns exactly round(distance in meters /
\* granularity) points, evenly spaced, the first being A and the last B.
C16_InterpolationSpansEndpoints ==
  LET self == inst["CoordinateInterpolation"][1]
      points == result["interpolate_coordinates"].val
  IN  (/\ calls["interpolate_coordinates"] > 0
       /\ EndpointA(self) # EndpointB(self)
       /\ self.granularity_meters > 0)
        => /\ result["interpolate_coordinates"].kind = "value"
           /\ Len(points) = calculate_number_of_points(self).val
           /\ EvenlySpaced(points, self)
           /\ Len(points) > 0
           /\ points[1] = EndpointA(self)
           /\ points[Len(points)] = EndpointB(self)

\* C21: importing the NPDM module, that is running its module-level
\* statements on the scenario values written in the file, performs no I/O
\* and runs no demo pipeline: no calculator is built, no factor is
\* evaluated and nothing is printed.
C21_ImportOnlyDefines ==
  (obs = FixedObservation /\ coefficients = FixedCoefficients)
    => /\ \A n \in Names : Len(inst[n]) = 0 /\ calls[n] = 0
       /\ Printed = <<>>

\* the inputs on which the Fresnel formula 0.6 * sqrt(wavelength * distance) / 2
\* is defined: numbers whose product is not negative
FresnelDefined(self) ==
  /\ IsNumber(self.wavelength_meter) /\ IsNumber(self.distance_meter)
  /\ (self.wavelength_meter.val = 0 \/ self.distance_meter.val = 0
      \/ Sgn(self.wavelength_meter.val) = Sgn(self.distance_meter.val))

\* the inputs on which the knife-edge formula h * sqrt(2 (dt + dr) / (w dt dr))
\* is defined: numbers, no zero in the divisor, no negative quotient
KnifeEdgeDefined(self) ==
  /\ \A a \in DOMAIN self : IsNumber(self[a])
  /\ self.wavelength_meter.val # 0
  /\ self.distance_transmitter_obstruction.val # 0
  /\ self.distance_receiver_obstruction.val # 0
  /\ LET sum == self.distance_transmitter_obstruction.val
                + self.distance_receiver_obstruction.val
         sign == Sgn(self.wavelength_meter.val)
                 * Sgn(self.distance_transmitter_obstruction.val)
                 * Sgn(self.distance_receiver_obstruction.val)
     IN  sum = 0 \/ Sgn(sum) = sign

\* a call that returned the float v and printed nothing
ReturnsValue(m, v) ==
  /\ result'[m] = Value(v)
  /\ calls'["print"] = calls["print"]

\* a call that printed the line msg and returned None
SwallowsAndPrints(m, msg) ==
  /\ result'[m] = FellThrough
  /\ calls'["print"] = calls["print"] + 1
  /\ result'["print"].val = msg

\* C22: calc_fresnel_zone and calc_knife_edge_diffraction never raise to the
\* caller: on inputs where the formula is undefined (negative product or
\* quotient under the root, zero wavelength or zero distance in the divisor,
\* a value that is not a number) the call prints its message and returns
\* None; on all other inputs it returns the formula's value.
C22_NeverRaises ==
  [][/\ calls'["calc_fresnel_zone"] = calls["calc_fresnel_zone"] + 1 =>
          LET self == inst["FresnelZone"][1]
          IN  IF FresnelDefined(self)
              THEN ReturnsValue("calc_fresnel_zone",
                     MulFx(Sqrt(MulFx(self.wavelength_meter.val,
                                      self.distance_meter.val)) \div 2, 600))
              ELSE SwallowsAndPrints("calc_fresnel_zone",
                                     "Please only provide numbers.")
     /\ calls'["calc_knife_edge_diffraction"]
          = calls["calc_knife_edge_diffraction"] + 1 =>
          LET self == inst["KnifeEdgeDiffraction"][1]
              dt == self.distance_transmitter_obstruction.val
              dr == self.distance_receiver_obstruction.val
          IN  IF KnifeEdgeDefined(self)
              THEN ReturnsValue("calc_knife_edge_diffraction",
                     MulFx(self.height_obstruction.val,
                           Sqrt(DivFx(2 * (dt + dr),
                                      MulFx(MulFx(self.wavelength_meter.val, dt),
                                            dr)))))
              ELSE SwallowsAndPrints("calc_knife_edge_diffraction",
                     "Please provide only integer (round) numbers for the distance and height.")
    ]_vars

\* both methods called on numbers with a negative wavelength: the Fresnel
\* product is negative and the call returned None after printing, while the
\* knife-edge quotient is positive and the call returned a float
C22_Witness ==
  /\ calls["calc_fresnel_zone"] > 0 /\ calls["calc_knife_edge_diffraction"] > 0
  /\ \A a \in DOMAIN obs : IsNumber(obs[a])
  /\ obs.wavelength_meter.val < 0 /\ obs.distance_meter.val > 0
  /\ obs.distance_receiver_obstruction.val < 0
  /\ result["calc_fresnel_zone"] = FellThrough
  /\ calls["print"] = calls["calc_fresnel_zone"]
  /\ result["calc_knife_edge_diffraction"].kind = "value"
  /\ result["calc_knife_edge_diffraction"].val > 0

====
